---- MODULE Spec2Model ----
(***************************************************************************)
(* A model of the tide scraping pipeline of UtilitiesDashboard.py:         *)
(* get_day_suffix, scrape_tide_times and fetch_scraped_tides.              *)
(*                                                                         *)
(* One fetch cycle is a walk of fetch_scraped_tides over the configured    *)
(* locations; for the location being scraped the state holds the locals of *)
(* scrape_tide_times that are still live.  A Python dict is a sequence of  *)
(* [k, v] records in insertion order; None is the record NoneV.            *)
(***************************************************************************)
EXTENDS Integers, Sequences, FiniteSets, TLC

VARIABLES
    pc,                \* fetch_scraped_tides: "idle", "loop", "done", or "raised"
    now,               \* datetime.now() of the cycle, as a day ordinal
    target_days_list,  \* the 3 labels built at line 168
    idx,               \* index into locations_to_scrape of the location in the loop
    stage,             \* per location: how far scrape_tide_times got
    net,               \* what the network does with the request of the current location
    response,          \* requests.get's response: Some(status code), or NoneV
    soup,              \* the parsed page: whether id="tide-table" exists, and the table
    header_row,        \* the row chosen at line 72
    data_row,          \* the row chosen at lines 82-93
    headers,           \* header_row.find_all('th'): raw texts of the cells
    data_cells,        \* data_row.find_all('td'): the text nodes of each cell
    daily_data,        \* dict day_name -> display string
    tide_data,         \* what scrape_tide_times returned (line 174)
    all_scraped_data,  \* dict location -> table
    requests_sent,     \* per location: calls of requests.get in the cycle
    dt_day,            \* dt.day, the argument of get_day_suffix (line 166)
    suffix,            \* get_day_suffix: the suffix it returns
    panel_text,        \* the text of one data cell (line 116)
    tides,             \* re.findall's list of (kind, time, height) (line 119)
    tide_events,       \* the formatted events (lines 122-125)
    joined,            \* " | ".join(tide_events) (line 128)
    parts,             \* the renderer's corkTideString.split(' | ') (line 1313)
    clock,             \* the timer of st.cache_data, in seconds
    host_date,         \* the host's date, as a day ordinal
    cache,             \* st.cache_data's entry for fetch_scraped_tides, or NoneV
    calls_made,        \* calls of the cached fetch_scraped_tides
    cycles,            \* runs of the body of fetch_scraped_tides
    secrets,           \* st.secrets: APP_PASSWORD and JF, each Some(text) or NoneV
    session_state,     \* st.session_state: the keys that are set to True
    password,          \* st.text_input("Password") of the run, NoneV when not read
    button,            \* st.button("Authenticate") of the run
    displayed,         \* show_dashboard ran in the run
    runs,              \* runs of main in the session
    fetches,           \* rounds of the three fetch functions started by the session
    csv_rows,          \* the rows csv.DictReader yields from the Jotform response
    data_list,         \* fetch_jotform_data: the records built so far
    jotform_json       \* what fetch_jotform_data returned: Some(text), or NoneV

vars == <<pc, now, target_days_list, idx, stage, net, response, soup, header_row,
          data_row, headers, data_cells, daily_data, tide_data, all_scraped_data,
          requests_sent, dt_day, suffix, panel_text, tides, tide_events, joined,
          parts, clock, host_date, cache, calls_made, cycles, secrets, session_state,
          password, button, displayed, runs, fetches, csv_rows, data_list,
          jotform_json>>

\* the state of the calls that are modelled on their own
calls == <<dt_day, suffix, panel_text, tides, tide_events, joined, parts>>

\* the state around the tide pipeline: the cache, the session, the Jotform fetch
cache_state == <<clock, host_date, cache, calls_made, cycles>>
session == <<secrets, session_state, password, button, displayed, runs, fetches>>
jotform == <<csv_rows, data_list, jotform_json>>
host == <<cache_state, session, jotform>>

-----------------------------------------------------------------------------
(* Bounds of the model. *)

\* most children (thead, tbody, tr) of the table element
MaxKids == 3
\* most rows inside one thead or tbody
MaxSectionRows == 2
\* most th cells of the header row, most td cells of the data row
MaxCells == 2
\* most text nodes of the data cell whose extraction is modelled on its own
MaxNodes == 3
\* most runs of main in one session
MaxRuns == 6
\* most calls of the cached fetch_scraped_tides in one behaviour
MaxCalls == 3
\* last reference date of the day labels modelled on their own, as a day ordinal
\* (2025-12-31; ordinal 0 is 2024-01-01)
MaxOrd == 730

-----------------------------------------------------------------------------
(* Python values. *)

NoneV == [isNone |-> TRUE]
Some(v) == [isNone |-> FALSE, v |-> v]

\* d[k] = v on an insertion-ordered dict: an existing key keeps its place.
RECURSIVE DictSet(_, _, _)
DictSet(d, k, v) ==
    IF d = <<>> THEN <<[k |-> k, v |-> v]>>
    ELSE IF Head(d).k = k THEN <<[k |-> k, v |-> v]>> \o Tail(d)
    ELSE <<Head(d)>> \o DictSet(Tail(d), k, v)

DictHas(d, k) == \E i \in 1..Len(d) : d[i].k = k
DictGet(d, k) == d[CHOOSE i \in 1..Len(d) : d[i].k = k].v

SeqsUpTo(S, n) == UNION {[1..m -> S] : m \in 0..n}

RECURSIVE JoinWith(_, _)
\* sep.join(parts)
JoinWith(texts, sep) ==
    IF texts = <<>> THEN ""
    ELSE IF Len(texts) = 1 THEN texts[1]
    ELSE texts[1] \o sep \o JoinWith(Tail(texts), sep)

-----------------------------------------------------------------------------
(* Day labels: lines 24-30 and 160-168. *)

\* variant: without the test for 10..20
get_day_suffix_by_last_digit(day) ==
    IF day % 10 = 1 THEN "st"
    ELSE IF day % 10 = 2 THEN "nd"
    ELSE IF day % 10 = 3 THEN "rd"
    ELSE "th"

get_day_suffix(day) ==
    IF 10 <= day % 100 /\ day % 100 <= 20 THEN "th"
    ELSE IF day % 10 = 1 THEN "st"
    ELSE IF day % 10 = 2 THEN "nd"
    ELSE IF day % 10 = 3 THEN "rd"
    ELSE "th"

\* The calendar of datetime: a day ordinal counts days from 2024-01-01 (ordinal 0),
\* a Monday.
IsLeap(y) == (y % 4 = 0 /\ y % 100 # 0) \/ y % 400 = 0
MonthLen(y, m) ==
    IF m = 2 THEN (IF IsLeap(y) THEN 29 ELSE 28)
    ELSE IF m \in {4, 6, 9, 11} THEN 30 ELSE 31

RECURSIVE CivilFrom(_, _, _)
\* the date (year, month, day of month) that lies n days after the first of month m of y
CivilFrom(y, m, n) ==
    IF n < MonthLen(y, m) THEN [year |-> y, month |-> m, day |-> n + 1]
    ELSE IF m = 12 THEN CivilFrom(y + 1, 1, n - MonthLen(y, m))
    ELSE CivilFrom(y, m + 1, n - MonthLen(y, m))

Civil(ord) == CivilFrom(2024, 1, ord)

\* dt.strftime('%a')
WeekdayAbbr == <<"Mon", "Tue", "Wed", "Thu", "Fri", "Sat", "Sun">>
strftime_a(ord) == WeekdayAbbr[(ord % 7) + 1]

\* variant: the date is not moved
timedelta_none(ord, k) == ord

\* today + timedelta(days=k)
timedelta_add(ord, k) == ord + k

\* day_format = lambda dt: f"{dt.strftime('%a')}, {dt.day}{get_day_suffix(dt.day)}"
day_format(ord) ==
    strftime_a(ord) \o ", " \o ToString(Civil(ord).day) \o get_day_suffix(Civil(ord).day)

BuildTargetDays(today) ==
    <<day_format(today), day_format(timedelta_add(today, 1)),
      day_format(timedelta_add(today, 2))>>

-----------------------------------------------------------------------------
(* Text: a text is a sequence of one-character strings. *)

Whitespace == {" ", "\n", "\t"}
Digits == {"0", "1", "2", "3", "4", "5", "6", "7", "8", "9"}

RECURSIVE Concat(_)
\* the string made of the characters of cs
Concat(cs) ==
    IF cs = <<>> THEN ""
    ELSE IF Len(cs) = 1 THEN cs[1]
    ELSE Concat(SubSeq(cs, 1, Len(cs) \div 2))
         \o Concat(SubSeq(cs, (Len(cs) \div 2) + 1, Len(cs)))

RECURSIVE LStrip(_)
LStrip(cs) == IF cs # <<>> /\ Head(cs) \in Whitespace THEN LStrip(Tail(cs)) ELSE cs

RECURSIVE RStrip(_)
RStrip(cs) ==
    IF cs # <<>> /\ cs[Len(cs)] \in Whitespace THEN RStrip(SubSeq(cs, 1, Len(cs) - 1))
    ELSE cs

\* str.strip()
Strip(cs) == RStrip(LStrip(cs))

RECURSIVE SplitFrom(_, _, _)
\* str.split(): the maximal runs of non-whitespace characters, as strings
SplitFrom(cs, cur, acc) ==
    IF cs = <<>> THEN (IF cur = "" THEN acc ELSE Append(acc, cur))
    ELSE IF Head(cs) \in Whitespace
         THEN SplitFrom(Tail(cs), "", IF cur = "" THEN acc ELSE Append(acc, cur))
         ELSE SplitFrom(Tail(cs), cur \o Head(cs), acc)

Split(cs) == SplitFrom(cs, "", <<>>)

\* " ".join(header_cell.text.split())   (line 113)
DayName(cs) == JoinWith(Split(cs), " ")

RECURSIVE JoinSeqs(_, _)
\* the texts joined by the text sep
JoinSeqs(texts, sep) ==
    IF texts = <<>> THEN <<>>
    ELSE IF Len(texts) = 1 THEN texts[1]
    ELSE texts[1] \o sep \o JoinSeqs(Tail(texts), sep)

RECURSIVE StrippedNodes(_)
\* the stripped text nodes of a cell, the empty ones left out
StrippedNodes(nodes) ==
    IF nodes = <<>> THEN <<>>
    ELSE IF Strip(Head(nodes)) = <<>> THEN StrippedNodes(Tail(nodes))
    ELSE <<Strip(Head(nodes))>> \o StrippedNodes(Tail(nodes))

\* cell.get_text(separator=' ', strip=True)   (line 116)
get_text(nodes) == JoinSeqs(StrippedNodes(nodes), <<" ">>)

-----------------------------------------------------------------------------
(* Event extraction: the regular expression of line 119,                   *)
(*   (Low|High) (\d{2}:\d{2}[ap]m) \((\d+\.\d+m)\)                         *)

At(cs, i) == IF i >= 1 /\ i <= Len(cs) THEN cs[i] ELSE ""

\* the literal lit (a sequence of characters) stands at position i of cs
LitAt(cs, i, lit) == \A k \in 1..Len(lit) : At(cs, i + k - 1) = lit[k]

RECURSIVE DigitsEnd(_, _)
\* the position after the longest run of digits that starts at i (\d+ is greedy)
DigitsEnd(cs, i) == IF At(cs, i) \in Digits THEN DigitsEnd(cs, i + 1) ELSE i

\* (Low|High): the length of the alternative that matches at i, 0 if none does
KindLen(cs, i) ==
    IF LitAt(cs, i, <<"L", "o", "w">>) THEN 3
    ELSE IF LitAt(cs, i, <<"H", "i", "g", "h">>) THEN 4
    ELSE 0

\* A match that starts at position i, or NoneV.
MatchAt(cs, i) ==
    LET kl == KindLen(cs, i)
        t  == i + kl + 1          \* first character of the time
        h  == t + 9               \* first character after "(": HH:MMxm is 7 long
        d1 == DigitsEnd(cs, h)
        d2 == DigitsEnd(cs, d1 + 1)
    IN  IF /\ kl > 0
           /\ At(cs, i + kl) = " "
           /\ At(cs, t) \in Digits /\ At(cs, t + 1) \in Digits
           /\ At(cs, t + 2) = ":"
           /\ At(cs, t + 3) \in Digits /\ At(cs, t + 4) \in Digits
           /\ At(cs, t + 5) \in {"a", "p"} /\ At(cs, t + 6) = "m"
           /\ At(cs, t + 7) = " " /\ At(cs, t + 8) = "("
           /\ d1 > h /\ At(cs, d1) = "." /\ d2 > d1 + 1
           /\ At(cs, d2) = "m" /\ At(cs, d2 + 1) = ")"
        THEN Some([kind   |-> SubSeq(cs, i, i + kl - 1),
                   time   |-> SubSeq(cs, t, t + 6),
                   height |-> SubSeq(cs, h, d2),
                   next   |-> d2 + 2])
        ELSE NoneV

RECURSIVE FindAllFrom(_, _)
\* re.findall: the leftmost matches, none overlapping another, left to right
FindAllFrom(cs, i) ==
    IF i > Len(cs) THEN <<>>
    ELSE LET m == MatchAt(cs, i)
         IN  IF m.isNone THEN FindAllFrom(cs, i + 1)
             ELSE <<[kind |-> m.v.kind, time |-> m.v.time, height |-> m.v.height]>>
                  \o FindAllFrom(cs, m.v.next)

\* variant: the first match only, as re.search would give
findall_first(cs) ==
    IF FindAllFrom(cs, 1) = <<>> THEN <<>> ELSE <<Head(FindAllFrom(cs, 1))>>

findall(cs) == FindAllFrom(cs, 1)

\* f"<b>{tide[0]}</b> {tide[1]} ({tide[2]})"   (line 125)
FormatEvent(tide) ==
    <<"<", "b", ">">> \o tide.kind \o <<"<", "/", "b", ">", " ">> \o tide.time
    \o <<" ", "(">> \o tide.height \o <<")">>

\* the list tide_events of lines 122-125
FormatEvents(found) == [i \in 1..Len(found) |-> FormatEvent(found[i])]

\* variant: the events are joined by a bar without blanks
JoinEventsBare(events) == JoinSeqs(events, <<"|">>)

\* " | ".join(tide_events)   (line 128)
JoinEvents(events) == JoinSeqs(events, <<" ", "|", " ">>)

\* the display string of a cell text (lines 119-128)
DisplayString(text) == Concat(JoinEvents(FormatEvents(findall(text))))

\* sep occurs in cs at position i
OccursAt(cs, sep, i) ==
    i + Len(sep) - 1 <= Len(cs) /\ SubSeq(cs, i, i + Len(sep) - 1) = sep

RECURSIVE js_split(_, _)
\* String.prototype.split with a non-empty separator (line 1313): cut at every
\* occurrence of sep, left to right; a string without sep is a single part
js_split(cs, sep) ==
    IF \E i \in 1..Len(cs) : OccursAt(cs, sep, i)
    THEN LET i == CHOOSE k \in 1..Len(cs) :
                     /\ OccursAt(cs, sep, k)
                     /\ \A m \in 1..(k - 1) : ~OccursAt(cs, sep, m)
         IN  <<SubSeq(cs, 1, i - 1)>> \o js_split(SubSeq(cs, i + Len(sep), Len(cs)), sep)
    ELSE <<cs>>

-----------------------------------------------------------------------------
(* The parsed page.  The element with id="tide-table" has children that    *)
(* are tr rows or thead/tbody sections holding n rows.  A row is named by  *)
(* the index of the child it belongs to and, inside a section, its place   *)
(* there (j = 0 for a row that is itself a child of the table).            *)

Nodes ==
    {[tag |-> "tr", n |-> 0]}
    \cup {[tag |-> t, n |-> n] : t \in {"thead", "tbody"}, n \in 0..MaxSectionRows}

Tables == SeqsUpTo(Nodes, MaxKids)

NoRow == [kid |-> 0, j |-> 0]
Row(i, j) == [kid |-> i, j |-> j]

\* the rows under child i, in document order
KidRows(table, i) ==
    IF table[i].tag = "tr" THEN <<Row(i, 0)>>
    ELSE [j \in 1..table[i].n |-> Row(i, j)]

RECURSIVE RowsFrom(_, _)
RowsFrom(table, i) ==
    IF i > Len(table) THEN <<>> ELSE KidRows(table, i) \o RowsFrom(table, i + 1)

\* table.find_all('tr')
find_all_tr(table) == RowsFrom(table, 1)

\* table.find('thead'), table.find('tbody'): the index of the first such child, 0 for None
find_section(table, tag) ==
    IF \E i \in 1..Len(table) : table[i].tag = tag
    THEN CHOOSE i \in 1..Len(table) :
            /\ table[i].tag = tag
            /\ \A k \in 1..(i - 1) : table[k].tag # tag
    ELSE 0

\* section.find('tr')
section_find_tr(table, i) == IF table[i].n >= 1 THEN Row(i, 1) ELSE NoRow

\* table.find('tr'): the first row in document order
table_find_tr(table) ==
    IF find_all_tr(table) = <<>> THEN NoRow ELSE find_all_tr(table)[1]

\* variant: no later sibling is ever found
no_next_sibling_tr(table, row) == NoRow

\* row.find_next_sibling('tr'): the next tr among the later children of row's parent
find_next_sibling_tr(table, row) ==
    IF row.j = 0
    THEN IF \E k \in (row.kid + 1)..Len(table) : table[k].tag = "tr"
         THEN Row(CHOOSE k \in (row.kid + 1)..Len(table) :
                     /\ table[k].tag = "tr"
                     /\ \A m \in (row.kid + 1)..(k - 1) : table[m].tag # "tr", 0)
         ELSE NoRow
    ELSE IF row.j < table[row.kid].n THEN Row(row.kid, row.j + 1) ELSE NoRow

\* lines 71-72
FindHeaderRow(table) ==
    LET thead == find_section(table, "thead")
    IN  IF thead # 0 THEN section_find_tr(table, thead) ELSE table_find_tr(table)

\* variant: the sibling of the header row is tried before the body section
FindDataRowSiblingFirst(table, hr) ==
    LET tbody    == find_section(table, "tbody")
        in_body  == IF tbody # 0 THEN section_find_tr(table, tbody) ELSE NoRow
        next_row == find_next_sibling_tr(table, hr)
        all_rows == find_all_tr(table)
    IN  IF next_row # NoRow THEN next_row
        ELSE IF in_body # NoRow THEN in_body
        ELSE IF Len(all_rows) > 1 THEN all_rows[2]
        ELSE NoRow

\* lines 81-93; hr is a row (line 74 returned for None)
FindDataRow(table, hr) ==
    LET tbody    == find_section(table, "tbody")
        in_body  == IF tbody # 0 THEN section_find_tr(table, tbody) ELSE NoRow
        next_row == find_next_sibling_tr(table, hr)
        all_rows == find_all_tr(table)
    IN  IF in_body # NoRow THEN in_body
        ELSE IF next_row # NoRow THEN next_row
        ELSE IF Len(all_rows) > 1 THEN all_rows[2]
        ELSE NoRow

\* the branch of lines 81-93 that assigns data_row: line 82 ("tbody"), line 88
\* ("next_sibling"), line 93 ("second_row"), or none of them
DataRowStrategy(table, hr) ==
    LET tbody    == find_section(table, "tbody")
        in_body  == IF tbody # 0 THEN section_find_tr(table, tbody) ELSE NoRow
        next_row == find_next_sibling_tr(table, hr)
        all_rows == find_all_tr(table)
    IN  IF in_body # NoRow THEN "tbody"
        ELSE IF next_row # NoRow THEN "next_sibling"
        ELSE IF Len(all_rows) > 1 THEN "second_row"
        ELSE "none"

\* the parsed pages: without the container, or with it and its table
NoTable == [found |-> FALSE, table |-> <<>>]
Soups == {NoTable} \cup {[found |-> TRUE, table |-> t] : t \in Tables}

-----------------------------------------------------------------------------
(* What the tide site serves.  The header cells carry day labels in the    *)
(* site's own rendering; the data cells carry text nodes.                  *)

WeekdayChars ==
    << <<"M", "o", "n">>, <<"T", "u", "e">>, <<"W", "e", "d">>, <<"T", "h", "u">>,
       <<"F", "r", "i">>, <<"S", "a", "t">>, <<"S", "u", "n">> >>

NumberChars(n) ==
    IF n < 10 THEN <<ToString(n)>> ELSE <<ToString(n \div 10), ToString(n % 10)>>

SiteOrdinalChars(d) ==
    IF d \in {1, 21, 31} THEN <<"s", "t">>
    ELSE IF d \in {2, 22} THEN <<"n", "d">>
    ELSE IF d \in {3, 23} THEN <<"r", "d">>
    ELSE <<"t", "h">>

\* "Thu, 30th" as the site prints the day ord
SiteLabel(ord) ==
    WeekdayChars[(ord % 7) + 1] \o <<",", " ">> \o NumberChars(Civil(ord).day)
        \o SiteOrdinalChars(Civil(ord).day)

\* the same label broken over lines and indented, as markup often is
SiteLabelSpaced(ord) ==
    <<"\n", " ">> \o WeekdayChars[(ord % 7) + 1] \o <<",", "\n", " ", " ">>
        \o NumberChars(Civil(ord).day) \o SiteOrdinalChars(Civil(ord).day) \o <<" ">>

\* the label without its ordinal suffix: "Thu, 30"
SiteLabelPlain(ord) ==
    WeekdayChars[(ord % 7) + 1] \o <<",", " ">> \o NumberChars(Civil(ord).day)

\* texts a header cell may hold on a day when the host's date is today: the labels
\* of the three target days, and a label that is none of them
HeaderTexts(today) ==
    {SiteLabel(today), SiteLabelSpaced(today + 1), SiteLabel(today + 2),
     SiteLabelPlain(today)}

LowText ==
    <<"L", "o", "w", " ", "0", "5", ":", "3", "3", "a", "m", " ",
      "(", "2", ".", "0", "2", "m", ")">>
HighText ==
    <<"H", "i", "g", "h", " ", "1", "1", ":", "4", "7", "p", "m", " ",
      "(", "4", ".", "1", "0", "m", ")">>
NoiseText == <<"s", "o", "m", "e", " ", "n", "o", "i", "s", "e">>

\* data cells: one without any event, one with a single event, and one with two
\* events, text between them, spread over two inline elements
CellNodes ==
    {<<NoiseText>>,
     <<LowText>>,
     <<<<" ">> \o LowText \o <<" ">> \o NoiseText \o <<" ">>, HighText \o <<"\n">>>>}

\* text nodes a data cell may hold: events, text that is no event, the two
\* halves of an event, an event whose hour has one digit, a blank node, and two
\* events with nothing between them
KindText == <<"L", "o", "w">>
TailText ==
    <<"0", "5", ":", "3", "3", "a", "m", " ", "(", "2", ".", "0", "2", "m", ")">>
ShortHourText ==
    <<"H", "i", "g", "h", " ", "1", ":", "4", "7", "p", "m", " ",
      "(", "4", ".", "1", "0", "m", ")">>
TextNodes ==
    {LowText, HighText, NoiseText, KindText, TailText, ShortHourText, <<" ">>,
     LowText \o HighText}

\* HTTP status codes a final response may carry
StatusCodes == {200, 304, 404, 503}

\* the day of a cycle: 2025-12-30 (Tue), whose targets leave the month and the year
RefDays == {729}

-----------------------------------------------------------------------------
(* scrape_tide_times and fetch_scraped_tides.                              *)

\* variant: a single configured location
LocationsCorkOnly == <<"Cork">>

\* locations_to_scrape.items(), in insertion order (lines 154-157)
Locations == <<"Cork", "Kerry">>
LocationNames == {Locations[i] : i \in 1..Len(Locations)}

NOT_FOUND == "Data not found"
UNAVAILABLE == "Data unavailable"

FailedStages == {"FetchFailed", "LocateFailed", "PairFailed", "ProcessFailed"}
ReturnedStages == FailedStages \cup {"Normalized"}
Stages ==
    {"Pending", "Fetching", "Fetched", "Located", "Paired", "Extracted"}
    \cup ReturnedStages

\* the location the loop of line 173 is at
cur == Locations[idx]

\* response.raise_for_status() raises HTTPError for the 4xx and 5xx codes (line 54)
raise_for_status(status) == 400 <= status /\ status < 600

\* variant: only the first except clause
ExceptClausesRequestOnly == <<"RequestException">>

\* the except clauses of lines 143-146, in order
ExceptClauses == <<"RequestException", "Exception">>

\* the classes an exception class derives from, itself included
Ancestors(exc) ==
    IF exc \in {"HTTPError", "ConnectionError"}
    THEN {exc, "RequestException", "Exception"}
    ELSE {exc, "Exception"}

\* some except clause of the try catches exc
Caught(exc) == \E i \in 1..Len(ExceptClauses) : ExceptClauses[i] \in Ancestors(exc)

\* variant: the lengths are not compared
ValidPairingNoLength(hs, ds) == ~(hs = <<>> \/ ds = <<>>)

\* line 102
ValidPairing(hs, ds) == ~(hs = <<>> \/ ds = <<>> \/ Len(hs) # Len(ds))

RECURSIVE BuildDailyFrom(_, _, _, _)
\* the loop of lines 109-128
BuildDailyFrom(hs, ds, i, acc) ==
    IF i > Len(hs) THEN acc
    ELSE IF i <= Len(ds)
         THEN BuildDailyFrom(hs, ds, i + 1,
                  DictSet(acc, DayName(hs[i]), DisplayString(get_text(ds[i]))))
         ELSE BuildDailyFrom(hs, ds, i + 1, acc)

BuildDaily(hs, ds) == BuildDailyFrom(hs, ds, 1, <<>>)

RECURSIVE FilterFrom(_, _, _, _)
\* the loop of lines 133-138
FilterFrom(daily, days, i, acc) ==
    IF i > Len(days) THEN acc
    ELSE FilterFrom(daily, days, i + 1,
             DictSet(acc, days[i],
                     IF DictHas(daily, days[i]) THEN DictGet(daily, days[i])
                     ELSE NOT_FOUND))

\* variant: a target label that was not scraped gets no entry
FilterOnlyPresent(daily, days) ==
    SelectSeq(FilterFrom(daily, days, 1, <<>>), LAMBDA e : e.v # NOT_FOUND)

\* variant: a target label that was not scraped gets the other sentinel
FilterMissingUnavailable(daily, days) ==
    LET full == FilterFrom(daily, days, 1, <<>>)
    IN  [i \in 1..Len(full) |->
            IF full[i].v = NOT_FOUND THEN [k |-> full[i].k, v |-> UNAVAILABLE]
            ELSE full[i]]

\* variant: location_tides starts as a copy of daily_data
FilterKeepsScraped(daily, days) == FilterFrom(daily, days, 1, daily)

\* variant: a scraped day without events counts as not scraped
FilterEmptyAsNotFound(daily, days) ==
    LET full == FilterFrom(daily, days, 1, <<>>)
    IN  [i \in 1..Len(full) |->
            IF full[i].v = "" THEN [k |-> full[i].k, v |-> NOT_FOUND] ELSE full[i]]

FilterTargets(daily, days) == FilterFrom(daily, days, 1, <<>>)

RECURSIVE FallbackFrom(_, _, _)
\* {day: "Data unavailable" for day in target_days_list}   (line 180)
FallbackFrom(days, i, acc) ==
    IF i > Len(days) THEN acc
    ELSE FallbackFrom(days, i + 1, DictSet(acc, days[i], UNAVAILABLE))

\* variant: the fallback is the empty dict
FallbackEmpty(days) == <<>>

\* variant: the fallback lists the days from the last to the first
FallbackReversed(days) ==
    FallbackFrom([i \in 1..Len(days) |-> days[Len(days) + 1 - i]], 1, <<>>)

Fallback(days) == FallbackFrom(days, 1, <<>>)

\* the renderer's key of day i, counted from 1 (line 1284):
\* corkDayKeys[i] || kerryDayKeys[i] || "Day " + (i+1)
dayLookupKey(corkTides, kerryTides, i) ==
    IF i <= Len(corkTides) /\ corkTides[i].k # "" THEN corkTides[i].k
    ELSE IF i <= Len(kerryTides) /\ kerryTides[i].k # "" THEN kerryTides[i].k
    ELSE "Day " \o ToString(i)

\* bool(tide_data) at line 175: None and the empty dict are false
Truthy(td) == ~td.isNone /\ td.v # <<>>

\* no call of get_day_suffix or of the cell loop is under way
NoCalls ==
    /\ dt_day = 0
    /\ suffix = ""
    /\ panel_text = <<>>
    /\ tides = <<>>
    /\ tide_events = <<>>
    /\ joined = <<>>
    /\ parts = <<>>

\* no cached call has been made
NoCache ==
    /\ clock = 0
    /\ host_date = 0
    /\ cache = NoneV
    /\ calls_made = 0
    /\ cycles = 0

\* no run of main has been made
NoSession ==
    /\ secrets = [APP_PASSWORD |-> NoneV, JF |-> NoneV]
    /\ session_state = {}
    /\ password = NoneV
    /\ button = FALSE
    /\ displayed = FALSE
    /\ runs = 0
    /\ fetches = 0

\* no Jotform fetch is under way
NoJotform ==
    /\ csv_rows = <<>>
    /\ data_list = <<>>
    /\ jotform_json = NoneV

NoHost == NoCache /\ NoSession /\ NoJotform

\* the tide pipeline is not running
NoPipeline ==
    /\ now = 0
    /\ target_days_list = <<>>
    /\ idx = 0
    /\ stage = [l \in LocationNames |-> "Pending"]
    /\ net = "none"
    /\ response = NoneV
    /\ soup = NoneV
    /\ header_row = NoRow
    /\ data_row = NoRow
    /\ headers = <<>>
    /\ data_cells = <<>>
    /\ daily_data = <<>>
    /\ tide_data = NoneV
    /\ all_scraped_data = <<>>
    /\ requests_sent = [l \in LocationNames |-> 0]

Init ==
    /\ pc = "idle"
    /\ now = 0
    /\ target_days_list = <<>>
    /\ idx = 0
    /\ stage = [l \in LocationNames |-> "Pending"]
    /\ net = "none"
    /\ response = NoneV
    /\ soup = NoneV
    /\ header_row = NoRow
    /\ data_row = NoRow
    /\ headers = <<>>
    /\ data_cells = <<>>
    /\ daily_data = <<>>
    /\ tide_data = NoneV
    /\ all_scraped_data = <<>>
    /\ requests_sent = [l \in LocationNames |-> 0]
    /\ NoCalls
    /\ NoHost

locals == <<net, response, soup, header_row, data_row, headers, data_cells,
            daily_data, tide_data>>

\* the locals of the tide pipeline and its counters
pipeline == <<idx, stage, locals, requests_sent>>

\* exc is raised inside the try of scrape_tide_times: a matching except clause
\* prints and falls through to "return None" (line 148); otherwise the exception
\* leaves scrape_tide_times and fetch_scraped_tides
Raise(exc, failed) ==
    IF Caught(exc)
    THEN /\ stage' = [stage EXCEPT ![cur] = failed]
         /\ tide_data' = NoneV
         /\ pc' = pc
    ELSE /\ stage' = stage
         /\ tide_data' = tide_data
         /\ pc' = "raised"

\* "return None" of lines 64, 76, 97, 104
ReturnNone(failed) ==
    /\ stage' = [stage EXCEPT ![cur] = failed]
    /\ tide_data' = NoneV
    /\ pc' = pc

\* lines 154-172: the target days of the cycle
Start ==
    /\ pc = "idle"
    /\ \E today \in RefDays :
          /\ now' = today
          /\ target_days_list' = BuildTargetDays(today)
    /\ all_scraped_data' = <<>>
    /\ requests_sent' = [l \in LocationNames |-> 0]
    /\ idx' = 1
    /\ pc' = "loop"
    /\ UNCHANGED <<stage, locals, calls>>
    /\ UNCHANGED host

\* line 52: requests.get(url, headers=headers, verify=False) is sent.  The call
\* passes no timeout: a server that answers lets it return, a network failure
\* makes it raise, a server that stays silent leaves it waiting.
SendRequest ==
    /\ pc = "loop" /\ idx <= Len(Locations)
    /\ stage[cur] = "Pending"
    /\ \E n \in {"responds", "error", "silent"} : net' = n
    /\ stage' = [stage EXCEPT ![cur] = "Fetching"]
    /\ requests_sent' = [requests_sent EXCEPT ![cur] = @ + 1]
    /\ UNCHANGED <<pc, now, target_days_list, idx, response, soup, header_row, data_row,
                   headers, data_cells, daily_data, tide_data, all_scraped_data, calls>>
    /\ UNCHANGED host

\* lines 52-54: the response arrives; raise_for_status
ReceiveResponse ==
    /\ pc = "loop" /\ idx <= Len(Locations)
    /\ stage[cur] = "Fetching" /\ net = "responds"
    /\ \E status \in StatusCodes :
          /\ response' = Some(status)
          /\ IF raise_for_status(status)
             THEN Raise("HTTPError", "FetchFailed")
             ELSE /\ stage' = [stage EXCEPT ![cur] = "Fetched"]
                  /\ UNCHANGED <<tide_data, pc>>
    /\ UNCHANGED <<now, target_days_list, idx, net, soup, header_row, data_row,
                   headers, data_cells, daily_data, all_scraped_data,
                   requests_sent, calls>>
    /\ UNCHANGED host

\* line 52: requests.get raises (connection refused, reset, DNS, TLS)
RequestFails ==
    /\ pc = "loop" /\ idx <= Len(Locations)
    /\ stage[cur] = "Fetching" /\ net = "error"
    /\ Raise("ConnectionError", "FetchFailed")
    /\ UNCHANGED <<now, target_days_list, idx, net, response, soup, header_row, data_row,
                   headers, data_cells, daily_data, all_scraped_data,
                   requests_sent, calls>>
    /\ UNCHANGED host

\* variant: a missing data row does not stop the locator
LocateRowsNoDataCheck(sp) ==
    LET hr == IF sp.found THEN FindHeaderRow(sp.table) ELSE NoRow
        dr == IF hr # NoRow THEN FindDataRow(sp.table, hr) ELSE NoRow
    IN  [found |-> sp.found /\ hr # NoRow, header_row |-> hr, data_row |-> dr]

\* lines 60-97 on a parsed page: the container, the header row, the data row
LocateRows(sp) ==
    LET hr == IF sp.found THEN FindHeaderRow(sp.table) ELSE NoRow
        dr == IF hr # NoRow THEN FindDataRow(sp.table, hr) ELSE NoRow
    IN  [found |-> sp.found /\ hr # NoRow /\ dr # NoRow, header_row |-> hr, data_row |-> dr]

\* lines 57-97: parse the markup, find the container, the header row, the data row
\* (the response is not read after line 57; the page stays in the state only where
\* scrape_tide_times returns for want of a row)
Locate ==
    /\ pc = "loop" /\ idx <= Len(Locations)
    /\ stage[cur] = "Fetched"
    /\ \/ \* the parser or a lookup raises
          /\ Raise("ParseError", "ProcessFailed")
          /\ UNCHANGED <<soup, header_row, data_row>>
       \/ \E sp \in Soups :
            LET r == LocateRows(sp)
            IN  /\ header_row' = r.header_row
                /\ data_row' = r.data_row
                /\ IF ~r.found
                   THEN /\ ReturnNone("LocateFailed")
                        /\ soup' = sp
                   ELSE /\ stage' = [stage EXCEPT ![cur] = "Located"]
                        /\ soup' = NoneV
                        /\ UNCHANGED <<tide_data, pc>>
    /\ response' = NoneV
    /\ UNCHANGED <<now, target_days_list, idx, net, headers, data_cells,
                   daily_data, all_scraped_data,
                   requests_sent, calls>>
    /\ UNCHANGED host

\* lines 77, 99, 102-104: the th cells of the header row, the td cells of the data
\* row, and the validation of the pairing (the rows are not read after line 99)
FindCells ==
    /\ pc = "loop" /\ idx <= Len(Locations)
    /\ stage[cur] = "Located"
    /\ \E hs \in SeqsUpTo(HeaderTexts(now), MaxCells), ds \in SeqsUpTo(CellNodes, MaxCells) :
          /\ headers' = hs
          /\ data_cells' = ds
          /\ IF ValidPairing(hs, ds)
             THEN /\ stage' = [stage EXCEPT ![cur] = "Paired"]
                  /\ UNCHANGED <<tide_data, pc>>
             ELSE ReturnNone("PairFailed")
    /\ header_row' = NoRow /\ data_row' = NoRow
    /\ UNCHANGED <<now, target_days_list, idx, net, response, soup,
                   daily_data, all_scraped_data,
                   requests_sent, calls>>
    /\ UNCHANGED host

\* variant: the cell loop also runs after the pairing was rejected
ExtractAfterPairFailed ==
    /\ pc = "loop" /\ idx <= Len(Locations)
    /\ stage[cur] \in {"Paired", "PairFailed"}
    /\ daily_data' = BuildDaily(headers, data_cells)
    /\ stage' = [stage EXCEPT ![cur] = "Extracted"]
    /\ UNCHANGED <<pc, now, target_days_list, idx, net, response, soup, header_row,
                   data_row, headers, data_cells, tide_data, all_scraped_data,
                   requests_sent, calls>>
    /\ UNCHANGED host

\* lines 109-128: day names and display strings
Extract ==
    /\ pc = "loop" /\ idx <= Len(Locations)
    /\ stage[cur] = "Paired"
    /\ daily_data' = BuildDaily(headers, data_cells)
    /\ stage' = [stage EXCEPT ![cur] = "Extracted"]
    /\ UNCHANGED <<pc, now, target_days_list, idx, net, response, soup, header_row,
                   data_row, headers, data_cells, tide_data, all_scraped_data,
                   requests_sent, calls>>
    /\ UNCHANGED host

\* lines 132-141: filter for the target days and return the table
FilterDays ==
    /\ pc = "loop" /\ idx <= Len(Locations)
    /\ stage[cur] = "Extracted"
    /\ tide_data' = Some(FilterTargets(daily_data, target_days_list))
    /\ stage' = [stage EXCEPT ![cur] = "Normalized"]
    /\ UNCHANGED <<pc, now, target_days_list, idx, net, response, soup, header_row,
                   data_row, headers, data_cells, daily_data, all_scraped_data,
                   requests_sent, calls>>
    /\ UNCHANGED host

\* variant: the loop is left at the first location that fails
CollectFailFast ==
    /\ pc = "loop" /\ idx <= Len(Locations)
    /\ stage[cur] \in ReturnedStages
    /\ all_scraped_data' =
          DictSet(all_scraped_data, cur,
                  IF Truthy(tide_data) THEN tide_data.v ELSE Fallback(target_days_list))
    /\ idx' = IF Truthy(tide_data) THEN idx + 1 ELSE Len(Locations) + 1
    /\ net' = "none" /\ response' = NoneV /\ soup' = NoneV
    /\ header_row' = NoRow /\ data_row' = NoRow
    /\ headers' = <<>> /\ data_cells' = <<>> /\ daily_data' = <<>>
    /\ tide_data' = NoneV
    /\ UNCHANGED <<pc, now, target_days_list, stage, requests_sent, calls>>
    /\ UNCHANGED host

\* variant: a location that failed is scraped a second time
CollectRetry ==
    /\ pc = "loop" /\ idx <= Len(Locations)
    /\ stage[cur] \in ReturnedStages
    /\ IF ~Truthy(tide_data) /\ requests_sent[cur] < 2
       THEN /\ stage' = [stage EXCEPT ![cur] = "Pending"]
            /\ UNCHANGED <<idx, all_scraped_data>>
       ELSE /\ all_scraped_data' =
                  DictSet(all_scraped_data, cur,
                          IF Truthy(tide_data) THEN tide_data.v
                          ELSE Fallback(target_days_list))
            /\ idx' = idx + 1
            /\ stage' = stage
    /\ net' = "none" /\ response' = NoneV /\ soup' = NoneV
    /\ header_row' = NoRow /\ data_row' = NoRow
    /\ headers' = <<>> /\ data_cells' = <<>> /\ daily_data' = <<>>
    /\ tide_data' = NoneV
    /\ UNCHANGED <<pc, now, target_days_list, requests_sent, calls>>
    /\ UNCHANGED host

\* lines 174-180: scrape_tide_times has returned; store its table or the fallback
Collect ==
    /\ pc = "loop" /\ idx <= Len(Locations)
    /\ stage[cur] \in ReturnedStages
    /\ all_scraped_data' =
          DictSet(all_scraped_data, cur,
                  IF Truthy(tide_data) THEN tide_data.v ELSE Fallback(target_days_list))
    /\ idx' = idx + 1
    /\ net' = "none" /\ response' = NoneV /\ soup' = NoneV
    /\ header_row' = NoRow /\ data_row' = NoRow
    /\ headers' = <<>> /\ data_cells' = <<>> /\ daily_data' = <<>>
    /\ tide_data' = NoneV
    /\ UNCHANGED <<pc, now, target_days_list, stage, requests_sent, calls>>
    /\ UNCHANGED host

\* line 182
Return ==
    /\ pc = "loop" /\ idx > Len(Locations)
    /\ pc' = "done"
    /\ UNCHANGED <<now, target_days_list, idx, stage, locals, all_scraped_data,
                   requests_sent, calls>>
    /\ UNCHANGED host

Next ==
    \/ Start
    \/ SendRequest
    \/ ReceiveResponse
    \/ RequestFails
    \/ Locate
    \/ FindCells
    \/ Extract
    \/ FilterDays
    \/ Collect
    \/ Return

Spec == Init /\ [][Next]_vars

\* requests.get returns or raises once the peer has acted, and the interpreter
\* runs every statement that is ready to run
FairSpec == Spec /\ WF_vars(Next)

-----------------------------------------------------------------------------
(* The locator on its own: lines 60-97 applied to every parsed page.       *)

InitLocator ==
    /\ pc = "locator"
    /\ now \in RefDays
    /\ target_days_list = BuildTargetDays(now)
    /\ idx = 0
    /\ stage = [l \in LocationNames |-> "Pending"]
    /\ net = "none"
    /\ response = NoneV
    /\ soup \in Soups
    /\ header_row = NoRow
    /\ data_row = NoRow
    /\ headers = <<>>
    /\ data_cells = <<>>
    /\ daily_data = <<>>
    /\ tide_data = NoneV
    /\ all_scraped_data = <<>>
    /\ requests_sent = [l \in LocationNames |-> 0]
    /\ NoCalls
    /\ NoHost

RunLocator ==
    /\ pc = "locator"
    /\ header_row' = LocateRows(soup).header_row
    /\ data_row' = LocateRows(soup).data_row
    /\ pc' = IF LocateRows(soup).found THEN "located" ELSE "not_found"
    /\ UNCHANGED <<now, target_days_list, idx, stage, net, response, soup, headers,
                   data_cells, daily_data, tide_data, all_scraped_data,
                   requests_sent, calls>>
    /\ UNCHANGED host

\* lines 64, 76, 97 and 174-180: scrape_tide_times returns None for want of the
\* container or of a row, and the location gets the fallback table
LocatorFallback ==
    /\ pc = "not_found"
    /\ tide_data' = NoneV
    /\ all_scraped_data' =
          DictSet(all_scraped_data, Locations[1],
                  IF Truthy(NoneV) THEN NoneV.v ELSE Fallback(target_days_list))
    /\ pc' = "unavailable"
    /\ UNCHANGED <<now, target_days_list, idx, stage, net, response, soup, header_row,
                   data_row, headers, data_cells, daily_data, requests_sent, calls>>
    /\ UNCHANGED host

NextLocator ==
    \/ RunLocator
    \/ LocatorFallback

SpecLocator == InitLocator /\ [][NextLocator]_vars

-----------------------------------------------------------------------------
(* One pass of the cell loop on its own: lines 116-128 applied to a data   *)
(* cell, and the renderer's split of the display string (line 1313).       *)

InitExtract ==
    /\ pc = "cell"
    /\ now = 0
    /\ target_days_list = <<>>
    /\ idx = 0
    /\ stage = [l \in LocationNames |-> "Pending"]
    /\ net = "none"
    /\ response = NoneV
    /\ soup = NoneV
    /\ header_row = NoRow
    /\ data_row = NoRow
    /\ headers = <<>>
    /\ data_cells \in {<<nodes>> : nodes \in SeqsUpTo(TextNodes, MaxNodes)}
    /\ daily_data = <<>>
    /\ tide_data = NoneV
    /\ all_scraped_data = <<>>
    /\ requests_sent = [l \in LocationNames |-> 0]
    /\ NoCalls
    /\ NoHost

\* lines 116-128
ExtractCell ==
    /\ pc = "cell"
    /\ panel_text' = get_text(data_cells[1])
    /\ tides' = findall(panel_text')
    /\ tide_events' = FormatEvents(tides')
    /\ joined' = JoinEvents(tide_events')
    /\ pc' = "joined"
    /\ UNCHANGED <<now, target_days_list, idx, stage, net, response, soup, header_row,
                   data_row, headers, data_cells, daily_data, tide_data,
                   all_scraped_data, requests_sent, dt_day, suffix, parts>>
    /\ UNCHANGED host

\* line 1313
SplitDisplay ==
    /\ pc = "joined"
    /\ parts' = js_split(joined, <<" ", "|", " ">>)
    /\ pc' = "split"
    /\ UNCHANGED <<now, target_days_list, idx, stage, net, response, soup, header_row,
                   data_row, headers, data_cells, daily_data, tide_data,
                   all_scraped_data, requests_sent, dt_day, suffix, panel_text, tides,
                   tide_events, joined>>
    /\ UNCHANGED host

NextExtract ==
    \/ ExtractCell
    \/ SplitDisplay

SpecExtract == InitExtract /\ [][NextExtract]_vars

-----------------------------------------------------------------------------
(* The day labels on their own: lines 160-168 for every reference date,    *)
(* one call of day_format (and of get_day_suffix) at a time.               *)

InitDays ==
    /\ pc = "days"
    /\ now \in 0..MaxOrd
    /\ target_days_list = <<>>
    /\ idx = 0
    /\ stage = [l \in LocationNames |-> "Pending"]
    /\ net = "none"
    /\ response = NoneV
    /\ soup = NoneV
    /\ header_row = NoRow
    /\ data_row = NoRow
    /\ headers = <<>>
    /\ data_cells = <<>>
    /\ daily_data = <<>>
    /\ tide_data = NoneV
    /\ all_scraped_data = <<>>
    /\ requests_sent = [l \in LocationNames |-> 0]
    /\ NoCalls
    /\ NoHost

\* line 168: the next entry of [day_format(today), day_format(tomorrow),
\* day_format(next_day)], with its call of get_day_suffix (line 166)
FormatDay ==
    /\ pc = "days"
    /\ LET dt == timedelta_add(now, Len(target_days_list))
       IN  /\ dt_day' = Civil(dt).day
           /\ suffix' = get_day_suffix(Civil(dt).day)
           /\ target_days_list' = Append(target_days_list, day_format(dt))
    /\ pc' = IF Len(target_days_list) = 2 THEN "built" ELSE "days"
    /\ UNCHANGED <<now, idx, stage, net, response, soup, header_row, data_row, headers,
                   data_cells, daily_data, tide_data, all_scraped_data, requests_sent,
                   panel_text, tides, tide_events, joined, parts>>
    /\ UNCHANGED host

NextDays == FormatDay

SpecDays == InitDays /\ [][NextDays]_vars

-----------------------------------------------------------------------------
(* The cache in front of fetch_scraped_tides: @st.cache_data(ttl=60), line *)
(* 150.  A call inside the window of the stored entry returns the entry    *)
(* without running the body; any other call runs the body, here as one     *)
(* step, and stores what it returned.                                      *)

\* ttl=60 (line 150)
ttl == 60

\* seconds that pass between two calls
TickSteps == {1, ttl - 1, ttl, ttl + 1}

\* variant: an entry never expires
CacheFreshForever(entry, t) == ~entry.isNone

\* the entry is served at time t: the cache's timer is still before stored_at + ttl
CacheFresh(entry, t) == ~entry.isNone /\ t < entry.v.stored_at + ttl

\* the tables scrape_tide_times and line 180 can give a location on the day date:
\* the fallback, or what the filter keeps of a page with one day column
CycleTables(date) ==
    {Fallback(BuildTargetDays(date))}
    \cup {FilterTargets(BuildDaily(<<SiteLabel(date)>>, <<c>>), BuildTargetDays(date)) :
              c \in CellNodes}

\* the mappings the body of fetch_scraped_tides can return on the day date
CycleResults(date) ==
    {<<[k |-> Locations[1], v |-> t1], [k |-> Locations[2], v |-> t2]>> :
        t1 \in CycleTables(date), t2 \in CycleTables(date)}

InitCache ==
    /\ pc = "ready"
    /\ NoPipeline /\ NoCalls /\ NoSession /\ NoJotform
    /\ clock = 0
    /\ host_date \in RefDays
    /\ cache = NoneV
    /\ calls_made = 0
    /\ cycles = 0

\* line 1544: show_dashboard calls the cached fetch_scraped_tides
CallCached ==
    /\ pc = "ready"
    /\ calls_made' = calls_made + 1
    /\ IF CacheFresh(cache, clock)
       THEN /\ all_scraped_data' = cache.v.value
            /\ UNCHANGED <<now, target_days_list, requests_sent, cache, cycles>>
       ELSE /\ now' = host_date
            /\ target_days_list' = BuildTargetDays(host_date)
            /\ \E result \in CycleResults(host_date) :
                  /\ all_scraped_data' = result
                  /\ cache' = Some([value |-> result, stored_at |-> clock])
            /\ requests_sent' = [l \in LocationNames |-> 1]
            /\ cycles' = cycles + 1
    /\ pc' = "returned"
    /\ UNCHANGED <<idx, stage, locals, calls, clock, host_date, session, jotform>>

\* time passes until the next call; midnight may lie in between
Tick ==
    /\ pc = "returned"
    /\ calls_made < MaxCalls
    /\ \E d \in TickSteps : clock' = clock + d
    /\ \E nd \in {host_date} \cup {host_date + 1 : x \in {host_date} \cap RefDays} :
          host_date' = nd
    /\ pc' = "ready"
    /\ UNCHANGED <<now, target_days_list, all_scraped_data, pipeline, calls, cache,
                   calls_made, cycles, session, jotform>>

NextCache ==
    \/ CallCached
    \/ Tick

SpecCache == InitCache /\ [][NextCache]_vars

-----------------------------------------------------------------------------
(* The password gate: main, check_password and show_dashboard (lines       *)
(* 1539-1617).  Streamlit runs main once per user event of the session;    *)
(* st.session_state lasts for the session, the widgets' values are those   *)
(* of the run.                                                             *)

\* what the user may have typed into the password field
Passwords == {"", "hse-ops", "guess"}

\* st.secrets.get("APP_PASSWORD"): missing, empty, or a password
AppPasswords == {NoneV, Some(""), Some("hse-ops"), Some("guess")}

\* variant: an empty secret counts as configured
secret_present(v) == ~v.isNone

\* "if not correct_password" is false (line 1568): the secret is there and not empty
secret_set(v) == ~v.isNone /\ v.v # ""

\* variant: any entered password is accepted
password_any(entered, correct) == TRUE

\* password == correct_password (line 1585)
password_matches(entered, correct) == entered = correct

\* variant: every run shows the dashboard
always_authenticated(ss) == TRUE

\* st.session_state.get("password_correct", False) (line 1608)
is_authenticated(ss) == "password_correct" \in ss

InitSession ==
    /\ pc = "await"
    /\ NoPipeline /\ NoCalls /\ NoCache /\ NoJotform
    /\ secrets \in {[APP_PASSWORD |-> a, JF |-> NoneV] : a \in AppPasswords}
    /\ session_state = {}
    /\ password = NoneV
    /\ button = FALSE
    /\ displayed = FALSE
    /\ runs = 0
    /\ fetches = 0

\* one run of main (lines 1596-1617): the user has typed entered and, if click,
\* pressed Authenticate; a run asked for by st.rerun() carries no click
RunMain ==
    /\ pc \in {"await", "rerun"}
    /\ runs < MaxRuns
    /\ runs' = runs + 1
    /\ \E entered \in Passwords, click \in {c \in BOOLEAN : pc = "rerun" => ~c} :
          IF is_authenticated(session_state)
          THEN \* show_dashboard (lines 1539-1556)
               /\ displayed' = TRUE
               /\ fetches' = fetches + 1
               /\ password' = NoneV /\ button' = FALSE
               /\ pc' = "await"
               /\ UNCHANGED session_state
          ELSE IF ~secret_set(secrets.APP_PASSWORD)
          THEN \* check_password returns False at line 1571
               /\ displayed' = FALSE
               /\ password' = NoneV /\ button' = FALSE
               /\ pc' = "await"
               /\ UNCHANGED <<session_state, fetches>>
          ELSE \* check_password reads the widgets (lines 1582-1593)
               /\ displayed' = FALSE
               /\ password' = Some(entered) /\ button' = click
               /\ IF click /\ password_matches(entered, secrets.APP_PASSWORD.v)
                  THEN /\ session_state' = session_state \cup {"password_correct"}
                       /\ pc' = "rerun"
                  ELSE /\ UNCHANGED session_state
                       /\ pc' = "await"
               /\ UNCHANGED fetches
    /\ UNCHANGED <<now, target_days_list, all_scraped_data, pipeline, calls, cache_state,
                   secrets, jotform>>

NextSession == RunMain

SpecSession == InitSession /\ [][NextSession]_vars

-----------------------------------------------------------------------------
(* fetch_jotform_data (lines 246-314).  The response is modelled by the    *)
(* rows csv.DictReader yields from it; of a row the model keeps Priority,  *)
(* Lat and Lon, the fields the function computes on; the other fields are  *)
(* copied as they are.                                                     *)

\* most rows of a Jotform response
MaxRows == 2

\* the value of a decimal digit
DigitValue(c) == CHOOSE n \in 0..9 : ToString(n) = c

RECURSIVE int_of(_)
\* int(s) of a text of decimal digits
int_of(cs) ==
    IF cs = <<>> THEN 0 ELSE 10 * int_of(SubSeq(cs, 1, Len(cs) - 1)) + DigitValue(cs[Len(cs)])

RECURSIVE str_of(_)
\* str(n) of a natural number
str_of(n) == IF n < 10 THEN <<ToString(n)>> ELSE Append(str_of(n \div 10), ToString(n % 10))

RECURSIVE DropTrailingZeros(_)
DropTrailingZeros(cs) ==
    IF cs # <<>> /\ cs[Len(cs)] = "0" THEN DropTrailingZeros(SubSeq(cs, 1, Len(cs) - 1))
    ELSE cs

\* the exception float() raises
ValueError == [kind |-> "ValueError"]

\* the names float() reads as the IEEE special values
NanNames == {<<"n", "a", "n">>}
InfNames == {<<"i", "n", "f">>, <<"i", "n", "f", "i", "n", "i", "t", "y">>}

\* float(s) of a text: blanks around it are dropped, a sign is read, then either
\* digits with at most one point or the name of a special value; anything else
\* raises ValueError.  (Exponents and digit-group underscores are outside the
\* texts the model serves.)
float(cs) ==
    LET s     == Strip(cs)
        neg   == s # <<>> /\ s[1] = "-"
        body  == IF s # <<>> /\ s[1] \in {"-", "+"} THEN Tail(s) ELSE s
        dots  == {i \in 1..Len(body) : body[i] = "."}
        dot   == IF dots = {} THEN Len(body) + 1 ELSE CHOOSE i \in dots : TRUE
        whole == SubSeq(body, 1, dot - 1)
        frac  == SubSeq(body, dot + 1, Len(body))
    IN  IF body \in NanNames THEN [kind |-> "nan"]
        ELSE IF body \in InfNames THEN [kind |-> "inf", neg |-> neg]
        ELSE IF /\ Cardinality(dots) <= 1
                /\ \A i \in 1..Len(body) : body[i] \in Digits \cup {"."}
                /\ Len(whole) + Len(frac) >= 1
             THEN [kind |-> "num", neg |-> neg, whole |-> int_of(whole),
                   frac |-> DropTrailingZeros(frac)]
        ELSE ValueError

\* variant: a text that is no number is read as None
float_or_none_lenient(v) ==
    IF v.isNone \/ v.v = <<>> \/ float(v.v) = ValueError THEN NoneV ELSE Some(float(v.v))

\* "float(lat) if lat else None" (lines 291-292): None and "" give None
float_or_none(v) ==
    IF v.isNone \/ v.v = <<>> THEN NoneV ELSE Some(float(v.v))

\* lines 276-282 on the text or None of the Priority field: the digits of the
\* text as a number, 0 when there is none
priority_num(v) ==
    IF v.isNone THEN 0 ELSE int_of(SelectSeq(v.v, LAMBDA c : c \in Digits))

\* the record of lines 290-305
processed_row(row) ==
    [Lat |-> float_or_none(row.Lat), Lon |-> float_or_none(row.Lon),
     Priority |-> priority_num(row.Priority)]

\* building the record of the row raises: float() rejects its Lat or its Lon
RowRaises(row) ==
    \/ float_or_none(row.Lat) = Some(ValueError)
    \/ float_or_none(row.Lon) = Some(ValueError)

\* json.dumps of a float: its repr, and with allow_nan left at its default the
\* special values as NaN, Infinity and -Infinity
float_repr(f) ==
    IF f.kind = "nan" THEN <<"N", "a", "N">>
    ELSE IF f.kind = "inf"
         THEN (IF f.neg THEN <<"-">> ELSE <<>>) \o <<"I", "n", "f", "i", "n", "i", "t", "y">>
    ELSE IF f.kind = "num"
         THEN (IF f.neg THEN <<"-">> ELSE <<>>) \o str_of(f.whole) \o <<".">>
              \o (IF f.frac = <<>> THEN <<"0">> ELSE f.frac)
    ELSE <<"?">>

null == <<"n", "u", "l", "l">>

\* json.dumps of a value that is None or a float
dumps_optional(v) == IF v.isNone THEN null ELSE float_repr(v.v)

\* json.dumps of one record: the keys in the order of the dict literal
dumps_record(rec) ==
    <<"{", "\"", "L", "a", "t", "\"", ":", " ">> \o dumps_optional(rec.Lat)
    \o <<",", " ", "\"", "L", "o", "n", "\"", ":", " ">> \o dumps_optional(rec.Lon)
    \o <<",", " ", "\"", "P", "r", "i", "o", "r", "i", "t", "y", "\"", ":", " ">>
    \o str_of(rec.Priority) \o <<"}">>

\* json.dumps(data_list) (line 308)
json_dumps(records) ==
    <<"[">> \o JoinSeqs([i \in 1..Len(records) |-> dumps_record(records[i])], <<",", " ">>)
    \o <<"]">>

\* the literal "[]" of lines 255 and 314
EmptyList == <<"[", "]">>

\* the rows a response may hold: coordinates in several spellings, empty and
\* missing fields, and texts that are no coordinates
CsvRows ==
    LET P1   == Some(<<"P", "1">>)
        P2   == Some(<<"P", "2">>)
        Lat1 == Some(<<"5", "3", ".", "3">>)
        Lat2 == Some(<<" ", "5", "1", ".", "9", "0", " ">>)
        Lat3 == Some(<<"0", "5", "2">>)
        Lon1 == Some(<<"-", "8", ".", "5">>)
        NA   == Some(<<"n", "/", "a">>)
        Nan  == Some(<<"n", "a", "n">>)
    IN  { [Priority |-> P1, Lat |-> Lat1, Lon |-> Lon1],
          [Priority |-> NoneV, Lat |-> Lat2, Lon |-> Lon1],
          [Priority |-> Some(<<>>), Lat |-> Lat3, Lon |-> Lon1],
          [Priority |-> P2, Lat |-> Some(<<>>), Lon |-> Some(<<>>)],
          [Priority |-> P1, Lat |-> NoneV, Lon |-> NoneV],
          [Priority |-> P1, Lat |-> NA, Lon |-> Lon1],
          [Priority |-> P2, Lat |-> Lat1, Lon |-> NA],
          [Priority |-> P2, Lat |-> Some(<<" ">>), Lon |-> Lon1],
          [Priority |-> P1, Lat |-> Nan, Lon |-> Lon1] }

\* st.secrets.get("JF"): missing, empty, or the URL of the CSV export
JotformUrls == {NoneV, Some(""), Some("https://jotform.example/csv")}

\* the except clauses of lines 310-313, in order
JotformExceptClauses == <<"HTTPError", "Exception">>

\* some except clause of fetch_jotform_data catches exc
JotformCaught(exc) ==
    \E i \in 1..Len(JotformExceptClauses) : JotformExceptClauses[i] \in Ancestors(exc)

\* what fetch_jotform_data leaves alone
outside_jotform ==
    <<now, target_days_list, idx, stage, soup, header_row, data_row, headers,
      data_cells, daily_data, tide_data, all_scraped_data, requests_sent, calls,
      cache_state, session>>

InitJotform ==
    /\ pc = "jf_call"
    /\ NoPipeline /\ NoCalls /\ NoCache /\ NoJotform
    /\ secrets \in {[APP_PASSWORD |-> Some("hse-ops"), JF |-> u] : u \in JotformUrls}
    /\ session_state = {"password_correct"}
    /\ password = NoneV
    /\ button = FALSE
    /\ displayed = FALSE
    /\ runs = 0
    /\ fetches = 0

\* exc is raised inside the try: an except clause that catches it prints, and
\* line 314 returns "[]"; otherwise the exception leaves the function
JotformRaise(exc) ==
    IF JotformCaught(exc)
    THEN /\ jotform_json' = Some(EmptyList)
         /\ pc' = "jf_returned"
    ELSE /\ jotform_json' = NoneV
         /\ pc' = "jf_raised"

\* lines 250-267: the URL is read; without it "[]" is returned, with it the
\* request is sent (no timeout is passed: the server may stay silent)
JotformCall ==
    /\ pc = "jf_call"
    /\ IF ~secret_set(secrets.JF)
       THEN /\ jotform_json' = Some(EmptyList)
            /\ pc' = "jf_returned"
            /\ UNCHANGED <<net, data_list>>
       ELSE /\ data_list' = <<>>
            /\ \E n \in {"responds", "error", "silent"} : net' = n
            /\ pc' = "jf_requested"
            /\ UNCHANGED jotform_json
    /\ UNCHANGED <<response, csv_rows, outside_jotform>>

\* line 267: requests.get raises
JotformRequestFails ==
    /\ pc = "jf_requested" /\ net = "error"
    /\ JotformRaise("ConnectionError")
    /\ UNCHANGED <<net, response, csv_rows, data_list, outside_jotform>>

\* lines 267-271: the response arrives; raise_for_status; the reader is set up
JotformReceive ==
    /\ pc = "jf_requested" /\ net = "responds"
    /\ \E status \in StatusCodes,
          rows \in SeqsUpTo(CsvRows, MaxRows) :
          /\ status # 200 => rows = <<>>
          /\ response' = Some(status)
          /\ csv_rows' = rows
          /\ IF raise_for_status(status)
             THEN JotformRaise("HTTPError")
             ELSE /\ pc' = "jf_rows"
                  /\ UNCHANGED jotform_json
    /\ UNCHANGED <<net, data_list, outside_jotform>>

\* lines 273-306: one pass of the loop over the rows
JotformRow ==
    /\ pc = "jf_rows" /\ Len(data_list) < Len(csv_rows)
    /\ LET row == csv_rows[Len(data_list) + 1]
       IN  IF RowRaises(row)
           THEN /\ JotformRaise("ValueError")
                /\ UNCHANGED data_list
           ELSE /\ data_list' = Append(data_list, processed_row(row))
                /\ UNCHANGED <<pc, jotform_json>>
    /\ UNCHANGED <<net, response, csv_rows, outside_jotform>>

\* line 308: the loop is over
JotformReturn ==
    /\ pc = "jf_rows" /\ Len(data_list) = Len(csv_rows)
    /\ jotform_json' = Some(json_dumps(data_list))
    /\ pc' = "jf_returned"
    /\ UNCHANGED <<net, response, csv_rows, data_list, outside_jotform>>

NextJotform ==
    \/ JotformCall
    \/ JotformRequestFails
    \/ JotformReceive
    \/ JotformRow
    \/ JotformReturn

SpecJotform == InitJotform /\ [][NextJotform]_vars

-----------------------------------------------------------------------------
(* Properties.                                                             *)

InLoop == pc = "loop" /\ idx \in 1..Len(Locations)
HasEntry(l) == DictHas(all_scraped_data, l)
TableOf(l) == DictGet(all_scraped_data, l)
Values(t) == {t[i].v : i \in 1..Len(t)}
Keys(t) == {t[i].k : i \in 1..Len(t)}
TargetLabels == {target_days_list[i] : i \in 1..Len(target_days_list)}

\* C1: whatever the outcome of a location's pipeline, the table stored for it has
\* exactly 3 keys, one per target day label.
C1_ThreeKeys ==
    \A l \in LocationNames :
        HasEntry(l) =>
            /\ Len(TableOf(l)) = 3
            /\ Cardinality(Keys(TableOf(l))) = 3
            /\ Keys(TableOf(l)) = TargetLabels

C1_Witness ==
    /\ pc = "done"
    /\ stage["Cork"] = "LocateFailed"
    /\ stage["Kerry"] = "Normalized"
    /\ Len(TableOf("Cork")) = 3 /\ Len(TableOf("Kerry")) = 3

\* C2: a location that ended in a failed state has "Data unavailable" in all 3
\* entries, and no stored table mixes "Data unavailable" with another value.
C2_FailedAllUnavailable ==
    \A l \in LocationNames :
        HasEntry(l) =>
            /\ stage[l] \in FailedStages =>
                  /\ Len(TableOf(l)) = 3
                  /\ Values(TableOf(l)) = {UNAVAILABLE}
            /\ UNAVAILABLE \in Values(TableOf(l)) => Values(TableOf(l)) = {UNAVAILABLE}

C2_Witness ==
    /\ pc = "done"
    /\ stage["Cork"] = "PairFailed"
    /\ Values(TableOf("Cork")) = {UNAVAILABLE}
    /\ stage["Kerry"] = "Normalized"
    /\ NOT_FOUND \in Values(TableOf("Kerry"))
    /\ Cardinality(Values(TableOf("Kerry"))) = 3

\* C3: an entry is "Data not found" only for a location whose scrape succeeded and
\* a target label that is no key of the scraped day table; an entry is "Data
\* unavailable" only for a location whose pipeline failed.
C3_SentinelsApart ==
    /\ \A l \in LocationNames :
          HasEntry(l) =>
              /\ NOT_FOUND \in Values(TableOf(l)) => stage[l] = "Normalized"
              /\ UNAVAILABLE \in Values(TableOf(l)) => stage[l] \in FailedStages
    /\ (InLoop /\ ~tide_data.isNone) =>
          /\ stage[cur] = "Normalized"
          /\ \A i \in 1..Len(tide_data.v) :
                /\ tide_data.v[i].v # UNAVAILABLE
                /\ tide_data.v[i].v = NOT_FOUND => ~DictHas(daily_data, tide_data.v[i].k)

C3_Witness ==
    /\ pc = "done"
    /\ stage["Cork"] = "Normalized"
    /\ NOT_FOUND \in Values(TableOf("Cork"))
    /\ stage["Kerry"] = "FetchFailed"
    /\ Values(TableOf("Kerry")) = {UNAVAILABLE}

\* the table a location is owed by its own pipeline alone
OwnTable ==
    [i \in 1..Len(target_days_list) |->
        [k |-> target_days_list[i],
         v |-> IF stage[cur] # "Normalized" THEN UNAVAILABLE
               ELSE IF DictHas(daily_data, target_days_list[i])
                    THEN DictGet(daily_data, target_days_list[i])
                    ELSE NOT_FOUND]]

IsolationStep ==
    /\ \A l \in LocationNames :
          HasEntry(l) =>
              /\ DictHas(all_scraped_data', l)
              /\ DictGet(all_scraped_data', l) = TableOf(l)
    /\ (InLoop /\ all_scraped_data' # all_scraped_data) =>
          /\ DictHas(all_scraped_data', cur)
          /\ DictGet(all_scraped_data', cur) = OwnTable

NotFailFast ==
    pc = "done" => \A l \in LocationNames : stage[l] \in ReturnedStages /\ HasEntry(l)

\* C4: the table stored for a location is the one its own fetch and page give,
\* whatever the other location's outcome; a stored table is never changed by the
\* other location's pipeline; and the cycle ends only after every location was
\* attempted, also when the first one failed.
C4_Isolation == [][IsolationStep]_vars /\ []NotFailFast

C4_Witness ==
    /\ pc = "done"
    /\ stage["Cork"] = "FetchFailed"
    /\ stage["Kerry"] = "Normalized"
    /\ Values(TableOf("Kerry")) \ {NOT_FOUND, UNAVAILABLE, ""} # {}

\* C5: no failure leaves fetch_scraped_tides; the result holds every configured
\* location, and when every location failed each holds the 3 target labels mapped
\* to "Data unavailable".
C5_FailuresContained ==
    /\ pc # "raised"
    /\ pc = "done" =>
          /\ Len(all_scraped_data) = Len(Locations)
          /\ \A l \in LocationNames : HasEntry(l)
          /\ (\A l \in LocationNames : stage[l] \in FailedStages) =>
                \A l \in LocationNames :
                    TableOf(l) = [i \in 1..3 |-> [k |-> target_days_list[i],
                                                  v |-> UNAVAILABLE]]

C5_Witness ==
    /\ pc = "done"
    /\ stage["Cork"] = "ProcessFailed"
    /\ stage["Kerry"] = "FetchFailed"

\* C6: every fetch cycle terminates: a fetch returns a response or is given up
\* after a finite timeout, so fetch_scraped_tides eventually returns.
C6_CycleTerminates == (pc = "loop") ~> (pc = "done")

\* C7: a response whose status is not in 200..299 ends the fetch step in failure:
\* its markup is not parsed.
C7_NonSuccessStatusFails ==
    (InLoop /\ ~response.isNone /\ response.v \notin 200..299) =>
        stage[cur] = "FetchFailed"

\* C8: on a successfully scraped page each target label maps to the display string
\* stored under that exact label in the scraped day table, or to "Data not found"
\* when the label is no key of it; scraped labels that are no target labels do not
\* appear.
C8_Filtering ==
    (InLoop /\ stage[cur] = "Normalized") =>
        /\ ~tide_data.isNone
        /\ Keys(tide_data.v) = TargetLabels
        /\ \A i \in 1..Len(tide_data.v) :
              LET e == tide_data.v[i]
              IN  IF \E j \in 1..Len(daily_data) : daily_data[j].k = e.k
                  THEN \E j \in 1..Len(daily_data) :
                          daily_data[j].k = e.k /\ daily_data[j].v = e.v
                  ELSE e.v = NOT_FOUND

\* a scraped label that is no target label, a target label found with events, and a
\* target label that differs from every scraped key
C8_Witness ==
    /\ InLoop /\ stage[cur] = "Normalized"
    /\ Keys(daily_data) \ TargetLabels # {}
    /\ \E i \in 1..3 : tide_data.v[i].v = NOT_FOUND
    /\ \E i \in 1..3 : tide_data.v[i].v \notin {NOT_FOUND, ""}

\* C9: with no header cell, no data cell, or collections of different lengths the
\* scrape of the location is aborted: nothing is paired and the result is
\* 3 x "Data unavailable".
C9_PairingValidation ==
    /\ (InLoop /\ stage[cur] \in {"PairFailed", "Paired", "Extracted", "Normalized"}
          /\ (Len(headers) = 0 \/ Len(data_cells) = 0 \/ Len(headers) # Len(data_cells))) =>
          /\ stage[cur] = "PairFailed"
          /\ tide_data.isNone
          /\ daily_data = <<>>
    /\ \A l \in LocationNames :
          (HasEntry(l) /\ stage[l] = "PairFailed") =>
              TableOf(l) = [i \in 1..3 |-> [k |-> target_days_list[i], v |-> UNAVAILABLE]]

\* headers [A, B] with cells [x]
C9_Witness ==
    /\ InLoop /\ stage[cur] = "PairFailed"
    /\ Len(headers) = 2 /\ Len(data_cells) = 1

-----------------------------------------------------------------------------
(* Properties of the locator (SpecLocator).                                *)

\* the rows of the located table
\* the locator has run
LocatorDone == {"located", "not_found", "unavailable"}

RowSet ==
    {Row(i, 0) : i \in {k \in 1..Len(soup.table) : soup.table[k].tag = "tr"}}
    \cup UNION {{Row(i, j) : j \in 1..soup.table[i].n} :
                    i \in {k \in 1..Len(soup.table) : soup.table[k].tag # "tr"}}

\* r1 comes before r2 in document order
DocBefore(r1, r2) == r1.kid < r2.kid \/ (r1.kid = r2.kid /\ r1.j < r2.j)

\* the first of a non-empty set of rows in document order
FirstOf(rows) == CHOOSE r \in rows : \A q \in rows : q = r \/ DocBefore(r, q)

\* r1 and r2 are children of the same element
Siblings(r1, r2) ==
    \/ r1.j = 0 /\ r2.j = 0
    \/ r1.j > 0 /\ r2.j > 0 /\ r1.kid = r2.kid

\* the rows of the table's body section (the first tbody of the table)
BodyRows ==
    {r \in RowSet :
        /\ soup.table[r.kid].tag = "tbody"
        /\ \A k \in 1..(r.kid - 1) : soup.table[k].tag # "tbody"}

\* the rows that follow the header row among the children of its parent
LaterSiblings == {r \in RowSet : Siblings(header_row, r) /\ DocBefore(header_row, r)}

\* the rows with exactly one row before them in document order
SecondRows == {r \in RowSet : Cardinality({q \in RowSet : DocBefore(q, r)}) = 1}

\* C10: the data row is (a) a row of the table's body section if it has one, else
\* (b) the next sibling row of the header row, else (c) the second row of the table
\* in document order; a later strategy is used only when the earlier ones find no
\* row.
C10_DataRowPriority ==
    (pc \in LocatorDone /\ soup.found /\ header_row # NoRow) =>
        IF BodyRows # {} THEN pc = "located" /\ data_row = FirstOf(BodyRows)
        ELSE IF LaterSiblings # {} THEN pc = "located" /\ data_row = FirstOf(LaterSiblings)
        ELSE IF SecondRows # {} THEN pc = "located" /\ data_row \in SecondRows
        ELSE pc # "located" /\ data_row = NoRow

\* the second-row strategy supplies the data row of a table whose body section
\* holds no row
C10_Witness ==
    /\ pc = "located"
    /\ data_row # header_row
    /\ BodyRows = {} /\ LaterSiblings = {}
    /\ data_row \in SecondRows
    /\ \E k \in 1..Len(soup.table) : soup.table[k].tag = "tbody"

\* the rows of the table's header section (the first thead of the table)
HeadRows ==
    {r \in RowSet :
        /\ soup.table[r.kid].tag = "thead"
        /\ \A k \in 1..(r.kid - 1) : soup.table[k].tag # "thead"}

\* C11: the header row is a row inside the table's header section when such a row
\* exists; otherwise it is the first row of the table in document order, so a
\* table that holds at least one row always yields a header row.
C11_HeaderRowSelection ==
    (pc \in LocatorDone /\ soup.found) =>
        IF HeadRows # {} THEN header_row = FirstOf(HeadRows)
        ELSE IF RowSet # {} THEN header_row = FirstOf(RowSet)
        ELSE header_row = NoRow

\* the table has neither a thead nor a tbody, and exactly two rows
TwoBareRows ==
    /\ soup.found
    /\ \A k \in 1..Len(soup.table) : soup.table[k].tag = "tr"
    /\ Cardinality(RowSet) = 2

NoHeaderRowAnywhere == HeadRows = {} /\ RowSet = {}

\* no strategy of lines 81-93 can find a data row for the header row
NoDataRowAnywhere == BodyRows = {} /\ LaterSiblings = {} /\ SecondRows = {}

\* C13: the locator reports NotFound, with no pairing or extraction performed and
\* 3 x "Data unavailable" as the location's table, when the page has no element
\* with the id "tide-table", and when inside the container no header row or no
\* data row can be located by any of the fallbacks.
C13_NotFound ==
    (/\ pc \in LocatorDone
     /\ \/ ~soup.found
        \/ NoHeaderRowAnywhere
        \/ header_row # NoRow /\ NoDataRowAnywhere) =>
        /\ pc \in {"not_found", "unavailable"}
        /\ headers = <<>> /\ data_cells = <<>> /\ daily_data = <<>>
        /\ tide_data.isNone
        /\ pc = "unavailable" =>
              /\ Len(all_scraped_data) = 1
              /\ Keys(all_scraped_data[1].v) = TargetLabels
              /\ Values(all_scraped_data[1].v) = {UNAVAILABLE}

\* a page without the container has got its fallback table
C13_Witness ==
    /\ pc = "unavailable"
    /\ ~soup.found
    /\ Len(all_scraped_data) = 1

\* the texts of the grammar (Low|High) dd:dd[ap]m (d+.d+m)
Kinds == {<<"L", "o", "w">>, <<"H", "i", "g", "h">>}
AllDigits(w) == \A i \in 1..Len(w) : w[i] \in Digits
IsTime(w) ==
    /\ Len(w) = 7
    /\ AllDigits(SubSeq(w, 1, 2)) /\ w[3] = ":" /\ AllDigits(SubSeq(w, 4, 5))
    /\ w[6] \in {"a", "p"} /\ w[7] = "m"
IsHeight(w) ==
    \E dot \in 2..(Len(w) - 2) :
        /\ AllDigits(SubSeq(w, 1, dot - 1)) /\ w[dot] = "."
        /\ AllDigits(SubSeq(w, dot + 1, Len(w) - 1)) /\ w[Len(w)] = "m"

\* the ways to read w as an event: kind, blank, time, blank, height in brackets
Readings(w) ==
    {g \in [kind : Kinds,
            time : {SubSeq(w, a, a + 6) : a \in {k \in 5..6 : k + 6 <= Len(w)}},
            height : {SubSeq(w, b, Len(w) - 1) : b \in {k \in 14..15 : k < Len(w)}}] :
        /\ IsTime(g.time) /\ IsHeight(g.height)
        /\ w = g.kind \o <<" ">> \o g.time \o <<" ", "(">> \o g.height \o <<")">>}

\* the places of panel_text where a text of the grammar starts, and where it ends
\* (such a text starts with L or H and ends with a closing bracket)
MatchEnds(i) ==
    IF panel_text[i] \notin {"L", "H"} THEN {}
    ELSE {j \in i..Len(panel_text) :
             panel_text[j] = ")" /\ Readings(SubSeq(panel_text, i, j)) # {}}
MatchStarts == {i \in 1..Len(panel_text) : MatchEnds(i) # {}}

\* the matches a scan from the left keeps: those that start after the end of
\* every kept match before them
KeptOf(starts, ends) ==
    CHOOSE S \in SUBSET starts :
        \A i \in starts :
            i \in S <=> \A k \in S : k < i => ends[k] < i

\* the kept matches from the left: where each starts and ends, and its groups
KeptMatches ==
    LET starts == MatchStarts
        ends   == [i \in starts |-> CHOOSE j \in MatchEnds(i) : TRUE]
        kept   == KeptOf(starts, ends)
        nth    == [n \in 1..Cardinality(kept) |->
                      CHOOSE i \in kept : Cardinality({k \in kept : k < i}) = n - 1]
    IN  [n \in 1..Cardinality(kept) |->
            [start |-> nth[n], end |-> ends[nth[n]],
             groups |-> CHOOSE g \in Readings(SubSeq(panel_text, nth[n], ends[nth[n]])) :
                            TRUE]]

CellDone == pc \in {"joined", "split"}

\* C14: extraction over a cell text returns the non-overlapping matches of the
\* grammar in left-to-right order of occurrence; every event's kind is exactly
\* "Low" or "High"; text between or around matches adds no event; a text with no
\* match yields zero events, never a partial one.
C14_Extraction ==
    CellDone =>
        LET kept == KeptMatches
        IN  /\ Len(tides) = Len(kept)
            /\ \A n \in 1..Len(tides) :
                  /\ tides[n] = kept[n].groups
                  /\ Concat(tides[n].kind) \in {"Low", "High"}
            /\ MatchStarts = {} => tides = <<>>

\* two events with other text between them, in a cell of three text nodes
C14_Witness ==
    /\ CellDone
    /\ Len(tides) = 2
    /\ Len(data_cells[1]) = 3
    /\ LET kept == KeptMatches
       IN  Len(kept) = 2 /\ kept[2].start > kept[1].end + 2

\* the cell text of the example
ExampleText == LowText \o <<" ">> \o NoiseText \o <<" ">> \o HighText

\* C15: the display string is the events in extraction order, each rendered as
\* "<b>Kind</b> time (heightm)", joined with exactly " | "; for n >= 1 events,
\* splitting it on " | " gives back exactly n parts in the same order; the cell
\* "Low 05:33am (2.02m) some noise High 11:47pm (4.10m)" gives
\* "<b>Low</b> 05:33am (2.02m) | <b>High</b> 11:47pm (4.10m)".
C15_DisplayString ==
    CellDone =>
        /\ Len(tide_events) = Len(tides)
        /\ \A n \in 1..Len(tides) :
              Concat(tide_events[n]) =
                  "<b>" \o Concat(tides[n].kind) \o "</b> " \o Concat(tides[n].time)
                  \o " (" \o Concat(tides[n].height) \o ")"
        /\ Concat(joined) =
              JoinWith([n \in 1..Len(tide_events) |-> Concat(tide_events[n])], " | ")
        /\ (pc = "split" /\ Len(tides) >= 1) => parts = tide_events
        /\ panel_text = ExampleText =>
              Concat(joined) = "<b>Low</b> 05:33am (2.02m) | <b>High</b> 11:47pm (4.10m)"

\* the display string of the example's cell has been split into its two events
C15_Witness ==
    /\ pc = "split"
    /\ panel_text = ExampleText
    /\ Len(parts) = 2

\* the ordinal suffix of a day of the month, as a table
SuffixTable(d) ==
    IF d \in {11, 12, 13} THEN "th"
    ELSE IF d \in {1, 21, 31} THEN "st"
    ELSE IF d \in {2, 22} THEN "nd"
    ELSE IF d \in {3, 23} THEN "rd"
    ELSE "th"

\* C16: get_day_suffix(d) for every day of the month d in 1..31 is "th" when
\* 10 <= d mod 100 <= 20, and this test comes first; otherwise "st", "nd", "rd"
\* for d mod 10 = 1, 2, 3 and "th" else.  Hence 11, 12, 13 -> "th"; 1, 21, 31 ->
\* "st"; 2, 22 -> "nd"; 3, 23 -> "rd"; every other day -> "th".
C16_DaySuffix ==
    (pc \in {"days", "built"} /\ target_days_list # <<>>) =>
        /\ dt_day \in 1..31
        /\ suffix = SuffixTable(dt_day)
        /\ suffix = (IF 10 <= dt_day % 100 /\ dt_day % 100 <= 20 THEN "th"
                     ELSE CASE dt_day % 10 = 1 -> "st"
                            [] dt_day % 10 = 2 -> "nd"
                            [] dt_day % 10 = 3 -> "rd"
                            [] OTHER -> "th")

\* get_day_suffix has been called for the 11th, where the test for 10..20 decides
C16_Witness ==
    /\ pc \in {"days", "built"}
    /\ dt_day = 11
    /\ suffix = "th"

\* C17: for every reference date, those at the end of a month or a year included,
\* the target-day list has exactly 3 labels, in the order reference day, reference
\* day + 1, reference day + 2, each formatted "<weekday abbrev>, <day of month>
\* <ordinal suffix>", and the 3 labels are pairwise distinct.
C17_TargetDays ==
    pc = "built" =>
        /\ Len(target_days_list) = 3
        /\ \A i \in 1..3 :
              target_days_list[i] =
                  WeekdayAbbr[((now + i - 1) % 7) + 1] \o ", "
                  \o ToString(Civil(now + i - 1).day)
                  \o SuffixTable(Civil(now + i - 1).day)
        /\ \A i, j \in 1..3 : i # j => target_days_list[i] # target_days_list[j]
        /\ target_days_list = BuildTargetDays(now)

\* the labels of a 30th of December: they leave the month and the year
C17_Witness ==
    /\ pc = "built"
    /\ Civil(now).month = 12 /\ Civil(now).day = 30
    /\ Civil(now + 2).year = Civil(now).year + 1

\* the display strings the data cells of a page can give
CellDisplays == {DisplayString(get_text(c)) : c \in CellNodes}

\* every key and every value of the table t is a string
StringTable(t) == \A i \in 1..Len(t) : t[i].k \in STRING /\ t[i].v \in STRING

\* C18: for every combination of per-location outcomes the mapping returned by
\* fetch_scraped_tides has exactly one top-level key per configured location
\* (Cork and Kerry), and every value is a mapping from string label to string;
\* with one location failing its fetch and the other succeeding, the failed one
\* holds 3 x "Data unavailable" and the succeeded one holds, per target day, real
\* data or "Data not found".
C18_ResultShape ==
    pc = "done" =>
        /\ [i \in 1..Len(all_scraped_data) |-> all_scraped_data[i].k] = <<"Cork", "Kerry">>
        /\ \A i \in 1..Len(all_scraped_data) : StringTable(all_scraped_data[i].v)
        /\ \A failed, ok \in {"Cork", "Kerry"} :
              (stage[failed] = "FetchFailed" /\ stage[ok] = "Normalized") =>
                  /\ [i \in 1..3 |-> TableOf(failed)[i].k] = target_days_list
                  /\ Len(TableOf(failed)) = 3
                  /\ Values(TableOf(failed)) = {UNAVAILABLE}
                  /\ [i \in 1..3 |-> TableOf(ok)[i].k] = target_days_list
                  /\ Len(TableOf(ok)) = 3
                  /\ Values(TableOf(ok)) \subseteq CellDisplays \cup {NOT_FOUND}

\* Kerry's fetch failed and Cork's table holds both scraped events and "Data not
\* found"
C18_Witness ==
    /\ pc = "done"
    /\ stage["Kerry"] = "FetchFailed"
    /\ stage["Cork"] = "Normalized"
    /\ NOT_FOUND \in Values(TableOf("Cork"))
    /\ Values(TableOf("Cork")) \ {NOT_FOUND, ""} # {}

\* the steps between stages: each stage follows the success of the one before it,
\* and a failed stage is left by no step
StageSuccessors ==
    {<<"Pending", "Fetching">>,
     <<"Fetching", "Fetched">>, <<"Fetching", "FetchFailed">>,
     <<"Fetched", "Located">>, <<"Fetched", "LocateFailed">>, <<"Fetched", "ProcessFailed">>,
     <<"Located", "Paired">>, <<"Located", "PairFailed">>,
     <<"Paired", "Extracted">>,
     <<"Extracted", "Normalized">>}

StageStep ==
    \A l \in LocationNames :
        stage'[l] = stage[l] \/ <<stage[l], stage'[l]>> \in StageSuccessors

\* what the later stages produce is absent where an earlier stage failed
NoLaterWork ==
    (InLoop /\ stage[cur] \in FailedStages) =>
        /\ tide_data.isNone /\ daily_data = <<>>
        /\ stage[cur] \in {"FetchFailed", "ProcessFailed"} =>
              header_row = NoRow /\ data_row = NoRow
        /\ stage[cur] # "PairFailed" => headers = <<>> /\ data_cells = <<>>

\* C19: per location the stages run in the fixed order fetch, locate, pair,
\* extract, normalize; a stage starts only after every earlier stage succeeded,
\* and once a stage has failed no later stage runs for that location in that
\* cycle; extraction and normalization have no failed state (a failure of the
\* parser counts with the locate stage).
C19_StageOrder == [][StageStep]_vars /\ []NoLaterWork

\* a cycle in which Cork's pairing was rejected and Kerry went through every stage
C19_Witness ==
    /\ pc = "done"
    /\ stage["Cork"] = "PairFailed"
    /\ stage["Kerry"] = "Normalized"

\* C20: in one fetch cycle each configured location's URL is requested exactly
\* once: a location whose fetch, locate or pairing fails is not fetched again, and
\* no location is fetched twice.
C20_OneRequest ==
    /\ \A l \in LocationNames :
          /\ requests_sent[l] <= 1
          /\ stage[l] # "Pending" => requests_sent[l] = 1
    /\ pc = "done" => \A l \in LocationNames : requests_sent[l] = 1

\* a finished cycle in which Cork failed to locate and Kerry failed to pair
C20_Witness ==
    /\ pc = "done"
    /\ stage["Cork"] = "LocateFailed"
    /\ stage["Kerry"] = "PairFailed"
    /\ \A l \in LocationNames : requests_sent[l] = 1

\* C25: on a successfully scraped page, a target label that is a key of the
\* scraped day table but whose data cell holds no match of the grammar gets the
\* empty string as its entry, neither "Data not found" nor "Data unavailable",
\* and the location is not treated as failed.
C25_EmptyEntry ==
    /\ (InLoop /\ stage[cur] = "Normalized") =>
          /\ Truthy(tide_data)
          /\ \A i \in 1..Len(target_days_list) :
                (\E j \in 1..Len(headers) :
                    /\ DayName(headers[j]) = target_days_list[i]
                    /\ \A m \in (j + 1)..Len(headers) : DayName(headers[m]) # DayName(headers[j])
                    /\ findall(get_text(data_cells[j])) = <<>>) =>
                    /\ tide_data.v[i].k = target_days_list[i]
                    /\ tide_data.v[i].v = ""
    /\ pc = "done" =>
          \A l \in LocationNames :
              stage[l] = "Normalized" =>
                  Values(TableOf(l)) \subseteq CellDisplays \cup {NOT_FOUND}

\* a finished cycle whose table for Cork holds an empty entry
C25_Witness ==
    /\ pc = "done"
    /\ stage["Cork"] = "Normalized"
    /\ "" \in Values(TableOf("Cork"))

\* the keys of the table t, in their order
KeySeq(t) == [i \in 1..Len(t) |-> t[i].k]

\* C26: in every mapping returned by fetch_scraped_tides all locations' tables
\* have the same keys in the same order, the target labels for today, tomorrow
\* and the day after, whatever mix of success and failure occurred; the
\* renderer's lookup of day i by the i-th key of either location addresses that
\* day in both tables.
C26_SameKeys ==
    pc = "done" =>
        /\ \A l \in LocationNames : KeySeq(TableOf(l)) = target_days_list
        /\ \A i \in 1..3 :
              /\ dayLookupKey(TableOf("Cork"), TableOf("Kerry"), i) = target_days_list[i]
              /\ DictHas(TableOf("Cork"), target_days_list[i])
              /\ DictHas(TableOf("Kerry"), target_days_list[i])

\* a finished cycle in which the parser failed for Cork and Kerry was scraped
C26_Witness ==
    /\ pc = "done"
    /\ stage["Cork"] = "ProcessFailed"
    /\ stage["Kerry"] = "Normalized"
    /\ KeySeq(TableOf("Cork")) = KeySeq(TableOf("Kerry"))

\* C27: whenever the locator finds both rows, the data row is a different row
\* from the header row, for every table layout: header and body sections both
\* present, only a body section, only a header section, or neither.
C27_RowsDiffer ==
    (pc = "located") => data_row # header_row

\* a step that is a call of the cached fetch_scraped_tides
CachedCallStep ==
    calls_made' = calls_made + 1 =>
        IF ~cache.isNone /\ clock - cache.v.stored_at < 60
        THEN /\ all_scraped_data' = cache.v.value
             /\ cycles' = cycles
             /\ requests_sent' = requests_sent
             /\ cache' = cache
        ELSE /\ cycles' = cycles + 1
             /\ requests_sent' = [l \in LocationNames |-> 1]
             /\ all_scraped_data' \in CycleResults(host_date)
             /\ cache' = Some([value |-> all_scraped_data', stored_at |-> clock])

\* C21: the tide result is cached with a 60-second window: a call made less than
\* 60 seconds after the result was computed returns that same mapping and
\* performs no network fetch; the first call after the window has expired runs
\* the full per-location pipeline again.
C21_CacheWindow == [][CachedCallStep]_vars

\* a second call, 59 seconds after the first, was served from the cache
C21_Witness ==
    /\ pc = "returned"
    /\ calls_made = 2
    /\ cycles = 1
    /\ clock = 59

\* C28: every mapping returned by a call to fetch_scraped_tides, one served from
\* the cache included, is keyed by the labels of the current day, the next day
\* and the day after as of the time of that call, also when the date changes
\* between the call that filled the cache and a later call inside the window.
C28_LabelsOfTheCall ==
    pc = "returned" =>
        \A i \in 1..Len(all_scraped_data) :
            KeySeq(all_scraped_data[i].v) = BuildTargetDays(host_date)

\* the session flag password_correct is set
Flag == "password_correct" \in session_state

\* a run of main: the dashboard is shown only with the flag set at the start, the
\* flag is set only by a press of the button with the configured password
GateStep ==
    runs' = runs + 1 =>
        /\ displayed' => Flag
        /\ (Flag' /\ ~Flag) =>
              /\ button'
              /\ ~password'.isNone
              /\ secrets.APP_PASSWORD = Some(password'.v)
        /\ (~Flag /\ (~button' \/ password'.isNone
                        \/ secrets.APP_PASSWORD # Some(password'.v))) => ~Flag'

\* C22: in any sequence of runs of main within one session the dashboard is
\* displayed in a run only if the flag password_correct is true at the start of
\* that run, and the flag becomes true only in a run where the Authenticate
\* button was pressed with an entered password equal to the configured
\* APP_PASSWORD; a wrong password or no button press leaves the flag unset.
C22_PasswordGate == [][GateStep]_vars

\* the dashboard is displayed in the run after the one that set the flag
C22_Witness ==
    /\ displayed
    /\ Flag
    /\ runs = 3

\* C23: if APP_PASSWORD is missing or empty, check_password returns False in
\* every run without reading any user input, so the flag is never set and the
\* dashboard is never displayed, whatever the user enters.
C23_NoPasswordConfigured ==
    (secrets.APP_PASSWORD.isNone \/ secrets.APP_PASSWORD = Some("")) =>
        /\ ~Flag
        /\ ~displayed
        /\ password.isNone /\ ~button
        /\ pc = "await"
        /\ fetches = 0

\* several runs of a session whose APP_PASSWORD is the empty string
C23_Witness ==
    /\ secrets.APP_PASSWORD = Some("")
    /\ runs = MaxRuns

\* a run of main: the fetches start only with the flag set, and the flag stays
FetchStep ==
    /\ fetches' # fetches => Flag
    /\ Flag => Flag'

\* C29: in any sequence of runs of main within a session no data fetch is
\* started before the session has authenticated: the three fetch functions are
\* called only from show_dashboard, which runs only when password_correct is
\* true; and once the flag is true it stays true in every later run.
C29_NoFetchBeforeLogin == [][FetchStep]_vars /\ [](fetches > 0 => Flag)

\* two runs of the session have shown the dashboard and fetched
C29_Witness ==
    /\ fetches = 2
    /\ Flag

\* a JSON number without exponent: an optional minus, digits, and an optional
\* point followed by digits
JsonNumber(cs) ==
    LET body   == IF cs # <<>> /\ cs[1] = "-" THEN Tail(cs) ELSE cs
        pieces == js_split(body, <<".">>)
    IN  /\ Len(pieces) \in {1, 2}
        /\ \A k \in 1..Len(pieces) :
              /\ pieces[k] # <<>>
              /\ \A j \in 1..Len(pieces[k]) : pieces[k][j] \in Digits

\* a member of a JSON object: a quoted name, a colon, and null or a number
JsonMember(cs) ==
    LET kv == js_split(cs, <<":", " ">>)
    IN  /\ Len(kv) = 2
        /\ Len(kv[1]) >= 2 /\ kv[1][1] = "\"" /\ kv[1][Len(kv[1])] = "\""
        /\ (kv[2] = null \/ JsonNumber(kv[2]))

\* the text is a JSON list of objects
IsJsonList(cs) ==
    \/ cs = EmptyList
    \/ /\ Len(cs) >= 4
       /\ SubSeq(cs, 1, 2) = <<"[", "{">>
       /\ SubSeq(cs, Len(cs) - 1, Len(cs)) = <<"}", "]">>
       /\ LET objects == js_split(SubSeq(cs, 3, Len(cs) - 2), <<"}", ",", " ", "{">>)
          IN  \A k \in 1..Len(objects) :
                 LET members == js_split(objects[k], <<",", " ">>)
                 IN  \A j \in 1..Len(members) : JsonMember(members[j])

\* the call failed: no URL, no response, an error status, or a row that raised
JotformFailed ==
    \/ ~secret_set(secrets.JF)
    \/ net = "error"
    \/ (~response.isNone /\ raise_for_status(response.v))
    \/ \E i \in 1..Len(csv_rows) : RowRaises(csv_rows[i])

\* C24: fetch_jotform_data always returns a JSON string and never raises: "[]"
\* when the JF URL is not configured, when the request fails or has an error
\* status, and when an exception occurs while the rows are processed; otherwise
\* the JSON list of one record per CSV row, in row order.
C24_JsonAlways ==
    /\ pc # "jf_raised"
    /\ pc = "jf_returned" =>
          /\ ~jotform_json.isNone
          /\ IsJsonList(jotform_json.v)
          /\ IF JotformFailed
             THEN jotform_json.v = EmptyList
             ELSE jotform_json.v =
                     json_dumps([i \in 1..Len(csv_rows) |-> processed_row(csv_rows[i])])

\* the field holds a text that is not empty and not a number: without the
\* blanks around it and a sign it is neither digits with at most one point
\* nor the name of a special floating-point value
NotANumber(v) ==
    /\ ~v.isNone
    /\ v.v # <<>>
    /\ LET s    == Strip(v.v)
           body == IF s # <<>> /\ s[1] \in {"-", "+"} THEN Tail(s) ELSE s
           rest == SelectSeq(body, LAMBDA c : c # ".")
       IN  /\ body \notin NanNames \cup InfNames
           /\ \/ rest = <<>>
              \/ Len(body) - Len(rest) > 1
              \/ \E j \in 1..Len(rest) : rest[j] \notin Digits

====
